---- MODULE Spec2Model ----
(***************************************************************************)
(* A model of mine.py: the Block record with its derived hash and          *)
(* leading-zero count, the Blockchain with its retargeted difficulty, and  *)
(* the nonce search of Blockchain.mine driven by the endless loop of the   *)
(* main program.                                                           *)
(*                                                                         *)
(* Text is a sequence of one-character strings.  SHA-256 is an external    *)
(* function: it is modelled as an unknown but fixed function from messages *)
(* to digests, of which the variable sha holds the part that the blocks    *)
(* still referenced (the chain and the latest candidate) have asked for;   *)
(* every digest is a possible value for a message not asked for before.    *)
(* A message is the tuple of the four fields in the order in which the     *)
(* code concatenates their texts.  Time is counted in whole seconds;       *)
(* where the code halves a sum the model compares the doubled quantities.  *)
(***************************************************************************)
EXTENDS Integers, Sequences, FiniteSets, TLC

(* ------------------------------ bounds ------------------------------- *)

\* the largest number of blocks the chain grows to
MaxChain == 5

\* the largest nonce a round tries
MaxNonce == 1

\* the latest reading of the clock
MaxTime == 4

\* the largest target_seconds_per_block the chain is constructed with
MaxTarget == 2

(* --------------------------- text and hashing ------------------------- *)

\* The digest of hexdigest() is cut down to its first character: a hash
\* has one leading zero or none, and a prefix of two zeros matches no hash
\* (as a prefix of 65 zeros matches none of SHA-256).
HashLen == 1

\* the characters of a digest: "0" and one stand-in for the fifteen others
HexChars == {"0", "f"}

\* the values of hashlib's hexdigest()
Digests == [1..HashLen -> HexChars]

\* Python values of the two types that previous_hash holds
PyInt(n) == <<"int", n>>
PyStr(s) == <<"str", s>>

\* '0' * n, which is the empty string for n <= 0
RECURSIVE Zeros(_)
Zeros(n) == IF n <= 0 THEN <<>> ELSE <<"0">> \o Zeros(n - 1)

\* s.lstrip("0")
RECURSIVE lstrip0(_)
lstrip0(s) == IF s # <<>> /\ Head(s) = "0" THEN lstrip0(Tail(s)) ELSE s

\* s.startswith(p)
startswith_length(s, p) == Len(p) <= Len(s)

startswith_nonempty(s, p) == /\ p # <<>>
                             /\ Len(p) <= Len(s)
                             /\ SubSeq(s, 1, Len(p)) = p

startswith(s, p) == /\ Len(p) <= Len(s)
                    /\ SubSeq(s, 1, Len(p)) = p

(* ------------------------------- state -------------------------------- *)

VARIABLES
    chain,                     \* Blockchain.__chain, a sequence of blocks
    target_seconds_per_block,  \* Blockchain.target_seconds_per_block
    now,                       \* the latest reading of time.time(), which
                               \* is taken never to run backwards
    sha,                       \* SHA-256 on the messages of the blocks in use
    pc,                        \* "main", or "loop" inside mine()
    prefix_str,                \* local of mine()
    nonce,                     \* local of mine()
    proposed_block,            \* local of mine(): <<>> while unbound, or
                               \* <<block>>; kept after mine() returns
    current_hash,              \* the main program's current_hash
    live,                      \* the table the Live display holds
    difficulty0,               \* the value self.difficulty had at line 98
    updates                    \* live_.update calls made by the latest round

vars == <<chain, target_seconds_per_block, now, sha, pc, prefix_str, nonce,
          proposed_block, current_hash, live, difficulty0, updates>>

(* ------------------------------- Block -------------------------------- *)

\* Block.__init__, with the reading of time.time() as its last argument
Block(index, nonce_, previous_hash, time) ==
    [index |-> index, nonce |-> nonce_, previous_hash |-> previous_hash,
     timestamp |-> time]

\* the argument of sha.update: index, timestamp, nonce, previous_hash
Message(b) == <<b.index, b.timestamp, b.nonce, b.previous_hash>>

\* Block.hash, with s the SHA-256 function
Block_hash(s, b) == s[Message(b)]

\* Block.difficulty: the number of leading zeros of the hash
Block_difficulty(s, b) == Len(Block_hash(s, b)) - Len(lstrip0(Block_hash(s, b)))

(* ----------------------------- Blockchain ----------------------------- *)

\* Blockchain.last_block
last_block == chain[Len(chain)]

\* Blockchain.difficulty of the chain c with the target tgt.
\* avg_time_to_mine_x2 is twice avg_time_to_mine; it is compared with twice
\* target * 0.5 and with twice target * 1.5.
Blockchain_difficulty_early(c, s, tgt) ==
    IF Len(c) < 2 THEN 1
    ELSE LET last == c[Len(c)]
             first == c[IF Len(c) > 2 THEN Len(c) - 2 ELSE 1]
             avg_time_to_mine_x2 ==
                 (last.timestamp - c[Len(c) - 1].timestamp)
                 + (c[Len(c) - 1].timestamp - first.timestamp)
         IN  IF avg_time_to_mine_x2 < tgt
             THEN Block_difficulty(s, last) + 1
             ELSE IF avg_time_to_mine_x2 > 3 * tgt
             THEN Block_difficulty(s, last) - 1
             ELSE Block_difficulty(s, last)

Blockchain_difficulty_minus2(c, s, tgt) ==
    IF Len(c) < 3 THEN 1
    ELSE LET last == c[Len(c)]
             avg_time_to_mine_x2 ==
                 (last.timestamp - c[Len(c) - 1].timestamp)
                 + (c[Len(c) - 1].timestamp - c[Len(c) - 2].timestamp)
         IN  IF avg_time_to_mine_x2 < tgt
             THEN Block_difficulty(s, last) + 1
             ELSE IF avg_time_to_mine_x2 > 3 * tgt
             THEN Block_difficulty(s, last) - 2
             ELSE Block_difficulty(s, last)

Blockchain_difficulty_plus2(c, s, tgt) ==
    IF Len(c) < 3 THEN 1
    ELSE LET last == c[Len(c)]
             avg_time_to_mine_x2 ==
                 (last.timestamp - c[Len(c) - 1].timestamp)
                 + (c[Len(c) - 1].timestamp - c[Len(c) - 2].timestamp)
         IN  IF avg_time_to_mine_x2 < tgt
             THEN Block_difficulty(s, last) + 2
             ELSE IF avg_time_to_mine_x2 > 3 * tgt
             THEN Block_difficulty(s, last) - 1
             ELSE Block_difficulty(s, last)

Blockchain_difficulty_nonstrict(c, s, tgt) ==
    IF Len(c) < 3 THEN 1
    ELSE LET last == c[Len(c)]
             avg_time_to_mine_x2 ==
                 (last.timestamp - c[Len(c) - 1].timestamp)
                 + (c[Len(c) - 1].timestamp - c[Len(c) - 2].timestamp)
         IN  IF avg_time_to_mine_x2 <= tgt
             THEN Block_difficulty(s, last) + 1
             ELSE IF avg_time_to_mine_x2 >= 3 * tgt
             THEN Block_difficulty(s, last) - 1
             ELSE Block_difficulty(s, last)

\* lines 62-66, doubled: twice avg_time_to_mine of the chain c
avg_time_to_mine_not_halved(c) ==
    2 * ((c[Len(c)].timestamp - c[Len(c) - 1].timestamp)
         + (c[Len(c) - 1].timestamp - c[Len(c) - 2].timestamp))

avg_time_to_mine_x2(c) ==
    (c[Len(c)].timestamp - c[Len(c) - 1].timestamp)
    + (c[Len(c) - 1].timestamp - c[Len(c) - 2].timestamp)

Blockchain_difficulty(c, s, tgt) ==
    IF Len(c) < 3 THEN 1
    ELSE LET last == c[Len(c)]
         IN  IF avg_time_to_mine_x2(c) < tgt
             THEN Block_difficulty(s, last) + 1
             ELSE IF avg_time_to_mine_x2(c) > 3 * tgt
             THEN Block_difficulty(s, last) - 1
             ELSE Block_difficulty(s, last)

\* Blockchain.to_table; new_block is <<>> for None and <<block>> otherwise.
\* Python's enumerate counts from 0, the sequence from 1.  A row holds the
\* numbers whose str() the code puts in the cells.
to_table_caption_ahead(c, s, tgt, new_block) ==
    [rows |->
        [i \in 1..Len(c) |-> <<i - 1, c[i].nonce, Block_hash(s, c[i])>>]
        \o (IF new_block # <<>>
            THEN << <<Len(c), new_block[1].nonce, Block_hash(s, new_block[1])>> >>
            ELSE <<>>),
     caption |-> Blockchain_difficulty(c \o new_block, s, tgt)]

to_table_short(c, s, tgt, new_block) ==
    [rows |->
        [i \in 1..(Len(c) - 1) |-> <<i - 1, c[i].nonce, Block_hash(s, c[i])>>]
        \o (IF new_block # <<>>
            THEN << <<Len(c), new_block[1].nonce, Block_hash(s, new_block[1])>> >>
            ELSE <<>>),
     caption |-> Blockchain_difficulty(c, s, tgt)]

to_table_from1(c, s, tgt, new_block) ==
    [rows |->
        [i \in 1..Len(c) |-> <<i, c[i].nonce, Block_hash(s, c[i])>>]
        \o (IF new_block # <<>>
            THEN << <<Len(c) + 1, new_block[1].nonce,
                      Block_hash(s, new_block[1])>> >>
            ELSE <<>>),
     caption |-> Blockchain_difficulty(c, s, tgt)]

to_table(c, s, tgt, new_block) ==
    [rows |->
        [i \in 1..Len(c) |-> <<i - 1, c[i].nonce, Block_hash(s, c[i])>>]
        \o (IF new_block # <<>>
            THEN << <<Len(c), new_block[1].nonce, Block_hash(s, new_block[1])>> >>
            ELSE <<>>),
     caption |-> Blockchain_difficulty(c, s, tgt)]

\* self.difficulty in the current state
required_difficulty ==
    Blockchain_difficulty(chain, sha, target_seconds_per_block)

\* the messages of the blocks of c and p
Messages(c, p) ==
    {Message(c[i]) : i \in 1..Len(c)} \cup {Message(p[i]) : i \in 1..Len(p)}

\* SHA-256 once b has been hashed to d, kept for the blocks in use
Hashed(c, b, d) ==
    [m \in Messages(c, <<b>>) |-> IF m = Message(b) THEN d ELSE sha[m]]

(* ------------------------------ actions ------------------------------- *)

Init_genesis_nonce1 ==
    /\ now = 0
    /\ target_seconds_per_block \in 1..MaxTarget
    /\ chain = <<Block(0, 1, PyInt(0), now)>>
    /\ \E d \in Digests : sha = (Message(chain[1]) :> d)
    /\ pc = "main"
    /\ prefix_str = <<>>
    /\ nonce = 0
    /\ proposed_block = <<>>
    /\ current_hash = Block_hash(sha, last_block)
    /\ live = to_table(chain, sha, target_seconds_per_block, <<>>)
    /\ difficulty0 = 1
    /\ updates = 0

\* Blockchain.__init__ and lines 115-119 of the main program
Init ==
    /\ now = 0
    /\ target_seconds_per_block \in 1..MaxTarget
    /\ chain = <<Block(0, 0, PyInt(0), now)>>
    /\ \E d \in Digests : sha = (Message(chain[1]) :> d)
    /\ pc = "main"
    /\ prefix_str = <<>>
    /\ nonce = 0
    /\ proposed_block = <<>>
    /\ current_hash = Block_hash(sha, last_block)
    /\ live = to_table(chain, sha, target_seconds_per_block, <<>>)
    /\ difficulty0 = 1
    /\ updates = 0

mine_begin_prefix_short ==
    /\ pc = "main"
    /\ Len(chain) < MaxChain
    /\ prefix_str' = Zeros(required_difficulty - 1)
    /\ nonce' = 0
    /\ difficulty0' = required_difficulty
    /\ updates' = 0
    /\ proposed_block' = <<>>
    /\ pc' = "loop"
    /\ UNCHANGED <<chain, target_seconds_per_block, now, sha, current_hash,
                   live>>

\* the call of line 121, and lines 98-99
mine_begin ==
    /\ pc = "main"
    /\ Len(chain) < MaxChain
    /\ prefix_str' = Zeros(required_difficulty)
    /\ nonce' = 0
    /\ difficulty0' = required_difficulty
    /\ updates' = 0
    /\ proposed_block' = <<>>
    /\ pc' = "loop"
    /\ UNCHANGED <<chain, target_seconds_per_block, now, sha, current_hash,
                   live>>

\* lines 102-106: the candidate built at clock reading t
Candidate_stale(t) ==
    Block(Len(chain), nonce,
          PyStr(Block_hash(sha, chain[IF Len(chain) > 1 THEN Len(chain) - 1
                                      ELSE 1])), t)

Candidate_index1(t) ==
    Block(Len(chain) + 1, nonce, PyStr(Block_hash(sha, last_block)), t)

Candidate(t) ==
    Block(Len(chain), nonce, PyStr(Block_hash(sha, last_block)), t)

\* the digests SHA-256 can give for the message of b
HashChoices(b) ==
    IF Message(b) \in DOMAIN sha THEN {sha[Message(b)]} ELSE Digests

\* lines 102-107 of one pass of the loop: the candidate b is built at clock
\* reading t, and the table holding it goes to the display; s is SHA-256
\* with the hash of b in it
Propose_throttled(t, b, s) ==
    /\ now' = t
    /\ proposed_block' = <<b>>
    /\ sha' = s
    /\ live' = IF b.nonce % 2 = 0
               THEN to_table(chain, s, target_seconds_per_block, <<b>>)
               ELSE live
    /\ updates' = IF b.nonce % 2 = 0 THEN updates + 1 ELSE updates

Propose(t, b, s) ==
    /\ now' = t
    /\ proposed_block' = <<b>>
    /\ sha' = s
    /\ live' = to_table(chain, s, target_seconds_per_block, <<b>>)
    /\ updates' = updates + 1

\* line 109: self.__chain.append(proposed_block)
append_overwrite(c, b) == [c EXCEPT ![Len(c)] = b]

append(c, b) == Append(c, b)

\* line 110: the value mine() returns, c being the chain before line 109
mine_return_previous(s, c, b) == Block_hash(s, c[Len(c)])

mine_return(s, c, b) == Block_hash(s, b)

\* a pass of the loop that ends in lines 109-110, and the assignment of
\* line 121
mine_commit ==
    /\ pc = "loop"
    /\ \E t \in now..MaxTime :
         \E d \in HashChoices(Candidate(t)) :
           LET b == Candidate(t)
               s == Hashed(chain, b, d)
           IN  /\ startswith(Block_hash(s, b), prefix_str)
               /\ Propose(t, b, s)
               /\ chain' = append(chain, b)
               /\ current_hash' = mine_return(s, chain, b)
    /\ pc' = "main"
    /\ UNCHANGED <<target_seconds_per_block, prefix_str, nonce, difficulty0>>

\* a pass that fails the test and steps the nonce by two
mine_reject_skips ==
    /\ pc = "loop"
    /\ nonce < MaxNonce
    /\ \E t \in now..MaxTime :
         \E d \in HashChoices(Candidate(t)) :
           LET b == Candidate(t)
               s == Hashed(chain, b, d)
           IN  /\ ~startswith(Block_hash(s, b), prefix_str)
               /\ Propose(t, b, s)
    /\ nonce' = nonce + 2
    /\ pc' = "loop"
    /\ UNCHANGED <<chain, target_seconds_per_block, prefix_str, current_hash,
                   difficulty0>>

\* a pass that fails the test and gives the search up
mine_reject_gives_up ==
    /\ pc = "loop"
    /\ nonce < MaxNonce
    /\ \E t \in now..MaxTime :
         \E d \in HashChoices(Candidate(t)) :
           LET b == Candidate(t)
               s == Hashed(chain, b, d)
           IN  /\ ~startswith(Block_hash(s, b), prefix_str)
               /\ Propose(t, b, s)
    /\ nonce' = nonce + 1
    /\ pc' = "main"
    /\ UNCHANGED <<chain, target_seconds_per_block, prefix_str, current_hash,
                   difficulty0>>

\* a pass of the loop that ends in line 111
mine_reject ==
    /\ pc = "loop"
    /\ nonce < MaxNonce
    /\ \E t \in now..MaxTime :
         \E d \in HashChoices(Candidate(t)) :
           LET b == Candidate(t)
               s == Hashed(chain, b, d)
           IN  /\ ~startswith(Block_hash(s, b), prefix_str)
               /\ Propose(t, b, s)
    /\ nonce' = nonce + 1
    /\ pc' = "loop"
    /\ UNCHANGED <<chain, target_seconds_per_block, prefix_str, current_hash,
                   difficulty0>>

Next == mine_begin \/ mine_commit \/ mine_reject

Spec == Init /\ [][Next]_vars

(* --------------- the difficulty of a chain of three blocks ------------ *)

\* target_seconds_per_block of the main program
MainTarget == 10

\* the clock readings of the three blocks
ScenarioTimes == {0, 1, 10, 20}

\* The state in which mine() has returned twice: the genesis block and two
\* blocks mined under the bootstrap difficulty 1, so that their hashes
\* start with "0"; the clock readings are drawn from ScenarioTimes.
ScenarioInit ==
    /\ target_seconds_per_block = MainTarget
    /\ \E t0, t1, t2 \in ScenarioTimes, n1, n2 \in 0..MaxNonce,
          d0, d1, d2 \in Digests :
         LET b0 == Block(0, 0, PyInt(0), t0)
             b1 == Block(1, n1, PyStr(d0), t1)
             b2 == Block(2, n2, PyStr(d1), t2)
         IN  /\ t0 <= t1 /\ t1 <= t2
             /\ startswith(d1, Zeros(1)) /\ startswith(d2, Zeros(1))
             /\ chain = <<b0, b1, b2>>
             /\ sha = (Message(b0) :> d0) @@ (Message(b1) :> d1)
                      @@ (Message(b2) :> d2)
             /\ now = t2
             /\ nonce = n2
             /\ proposed_block = <<b2>>
             /\ current_hash = d2
             /\ live = to_table(<<b0, b1>>, sha, target_seconds_per_block,
                                <<b2>>)
             /\ updates = n2 + 1
    /\ pc = "main"
    /\ prefix_str = Zeros(1)
    /\ difficulty0 = 1

\* the third call of mine() reads self.difficulty
ScenarioNext == mine_begin

ScenarioSpec == ScenarioInit /\ [][ScenarioNext]_vars

(* ------------------------------ properties ---------------------------- *)

\* the hash and the leading-zero count of a block in the current state
hash(b) == Block_hash(sha, b)
leading_zero_count(b) == Block_difficulty(sha, b)

\* twice the average gap of the last three committed timestamps
gap_x2 == chain[Len(chain)].timestamp - chain[Len(chain) - 2].timestamp

\* a round has committed and mine() has returned
Returned == pc = "main" /\ Len(chain) > 1

\* C1: chain linkage.  In every reachable state the stored previous_hash of
\* each block after the genesis block is the hash of the block before it.
C1_ChainLinkage ==
    \A i \in 2..Len(chain) : chain[i].previous_hash = PyStr(hash(chain[i - 1]))

\* three rounds have committed, over hashes that are not all the same
C1_Witness ==
    /\ Len(chain) >= 4
    /\ hash(chain[1]) # hash(chain[2])
    /\ hash(chain[3]) # hash(chain[4])

\* C2: mining correctness.  The block a round commits has at least as many
\* leading zeros as the prefix computed from the difficulty read at the
\* start of the round has characters.
C2_MiningCorrectness ==
    Returned =>
        /\ Len(prefix_str) = (IF difficulty0 > 0 THEN difficulty0 ELSE 0)
        /\ leading_zero_count(last_block) >= Len(prefix_str)

\* a round that began after the bootstrap with one zero required committed
\* after rejecting a candidate
C2_Witness ==
    /\ Returned
    /\ Len(chain) >= 4
    /\ difficulty0 = 1
    /\ last_block.nonce = 1

\* C3: required_difficulty() is never negative.
C3_DifficultyNonNegative == required_difficulty >= 0

\* C4: difficulty bootstrap.  With fewer than 3 blocks committed the
\* required difficulty is 1, whatever the target and the timestamps.
C4_Bootstrap == Len(chain) < 3 => required_difficulty = 1

\* two blocks, the gap between them far beyond 1.5 times the target
C4_Witness ==
    /\ Len(chain) = 2
    /\ 2 * (chain[2].timestamp - chain[1].timestamp)
           > 3 * target_seconds_per_block

\* C5: difficulty step.  With at least 3 blocks committed the required
\* difficulty is within 1 of the last block's leading-zero count.
C5_DifficultyStep ==
    Len(chain) >= 3 =>
        required_difficulty - leading_zero_count(last_block) \in {-1, 0, 1}

\* the requirement is one above a last block that has a leading zero
C5_Witness ==
    /\ Len(chain) >= 3
    /\ leading_zero_count(last_block) = 1
    /\ required_difficulty = 2

\* C6: retarget rule.  With at least 3 blocks committed the requirement is
\* the last block's leading-zero count plus 1 exactly when the average gap
\* is below half the target, minus 1 exactly when it is above one and a
\* half times the target, and the count itself otherwise; both bounds are
\* strict.
C6_RetargetRule ==
    Len(chain) >= 3 =>
        LET lz == leading_zero_count(last_block)
            tgt == target_seconds_per_block
        IN  /\ required_difficulty = lz + 1 <=> gap_x2 < tgt
            /\ required_difficulty = lz - 1 <=> gap_x2 > 3 * tgt
            /\ required_difficulty = lz <=> (tgt <= gap_x2 /\ gap_x2 <= 3 * tgt)

\* the average gap is exactly half the target and the difficulty holds
C6_Witness ==
    /\ Len(chain) >= 3
    /\ gap_x2 = target_seconds_per_block
    /\ required_difficulty = leading_zero_count(last_block)

\* C7: zero-difficulty fast path.  A round that read the difficulty 0 at
\* its start rejects no candidate: it commits the block of nonce 0 after
\* one call of the display.
C7_ZeroDifficultyFastPath ==
    difficulty0 = 0 =>
        /\ pc = "loop" => (nonce = 0 /\ updates = 0)
        /\ pc = "main" => (last_block.nonce = 0 /\ updates = 1)

\* a round that read the difficulty 0 committed a block whose hash has no
\* leading zero
C7_Witness ==
    /\ Returned
    /\ difficulty0 = 0
    /\ leading_zero_count(last_block) = 0

\* C8: index ordering.  The block at position i has index i (counting from
\* 0), and a step that changes the chain appends one block whose index is
\* the length the chain had.
C8_IndexOrdering ==
    /\ [](\A i \in 1..Len(chain) : chain[i].index = i - 1)
    /\ [][chain' # chain =>
            /\ Len(chain') = Len(chain) + 1
            /\ chain'[Len(chain')].index = Len(chain)
            /\ proposed_block'[1].index = Len(chain)]_vars

\* four rounds have committed
C8_Witness == Len(chain) = 5 /\ last_block.index = 4

\* C9: append-only growth.  A pass that returns from mine() lengthens the
\* chain by one block and keeps the blocks before it as they were; every
\* other step, a rejecting pass included, leaves the chain unchanged.
C9_AppendOnly ==
    [][/\ (pc = "loop" /\ pc' = "main") =>
              (Len(chain') = Len(chain) + 1
               /\ SubSeq(chain', 1, Len(chain)) = chain)
       /\ ~(pc = "loop" /\ pc' = "main") => chain' = chain]_vars

\* a round committed after it had rejected a candidate
C9_Witness == Returned /\ Len(chain) >= 3 /\ last_block.nonce = 1

\* C10: when mine() has returned, its value is the hash of the last block,
\* and the last block is the candidate of the pass that passed the prefix
\* test.
C10_ReturnsAppendedHash ==
    Returned =>
        /\ current_hash = hash(last_block)
        /\ proposed_block = <<last_block>>
        /\ startswith(hash(last_block), prefix_str)

\* mine() returned the hash of a block that differs from the hash before it
C10_Witness ==
    /\ Returned
    /\ Len(chain) >= 3
    /\ hash(last_block) # hash(chain[Len(chain) - 1])

\* the rows to_table gives for the blocks of the chain, in chain order
committed_rows ==
    [i \in 1..Len(chain) |-> <<i - 1, chain[i].nonce, hash(chain[i])>>]

\* C11: to_table is a pure read.  A pass that only hands a table to the
\* display leaves the chain unchanged; the table made without a candidate
\* has one row for each block, in chain order; the table made with a
\* candidate has those rows and one more for the candidate, at the position
\* that is the chain's length, and the candidate is no block of the chain.
C11_SnapshotPureRead ==
    /\ []((Len(chain) = 1 /\ updates = 0) => live.rows = committed_rows)
    /\ []((pc = "loop" /\ proposed_block # <<>>) =>
            /\ live.rows = committed_rows
                   \o << <<Len(chain), proposed_block[1].nonce,
                           hash(proposed_block[1])>> >>
            /\ \A i \in 1..Len(chain) : chain[i] # proposed_block[1])
    /\ [][(pc' = "loop" /\ updates' = updates + 1) => chain' = chain]_vars

\* a table with a rejected candidate behind the rows of three blocks
C11_Witness ==
    /\ pc = "loop"
    /\ proposed_block # <<>>
    /\ Len(chain) = 3
    /\ Len(live.rows) = 4

\* C12: the display is called once for each candidate of a round, the
\* committed one included.  Inside a round the calls number the candidates
\* rejected so far, after the return they number the committed nonce plus
\* one, and the table of the latest call holds the latest candidate.
C12_CallbackPerCandidate ==
    /\ pc = "loop" => updates = nonce
    /\ Returned => updates = last_block.nonce + 1
    /\ proposed_block # <<>> =>
           live.rows[Len(live.rows)] =
               <<proposed_block[1].index, proposed_block[1].nonce,
                 hash(proposed_block[1])>>

\* a round returned after two calls of the display, its block has nonce 1
C12_Witness ==
    /\ Returned
    /\ updates = 2
    /\ last_block.nonce = 1
    /\ Len(chain) >= 4

\* the table on display was made from the first n blocks of the chain as
\* committed rows, under the difficulty required behind them, with a
\* candidate behind them
ShownAfter(n) ==
    /\ Len(chain) >= n
    /\ Len(live.rows) = n + 1
    /\ \A i \in 1..n : live.rows[i] = committed_rows[i]
    /\ live.caption = Blockchain_difficulty(SubSeq(chain, 1, n), sha,
                                            target_seconds_per_block)

\* C13: the display is refreshed in every pass, and after every commit a
\* table is shown that lists the new block among the committed rows under
\* the difficulty now required.  The program goes on to the next round
\* after a return and to the round's first pass, and that pass shows the
\* table.  (A commit that fills the chain to MaxChain has no next round
\* here.)
C13_RefreshAfterCommit ==
    /\ []((Returned /\ Len(chain) < MaxChain) => ENABLED mine_begin)
    /\ []((pc = "loop" /\ updates = 0) => ENABLED (mine_commit \/ mine_reject))
    /\ [][\A n \in 1..MaxChain :
            (pc = "loop" /\ updates = 0 /\ Len(chain) = n /\ updates' = 1)
                => ShownAfter(n)']_vars

\* after the commit of the third block the display holds a table with
\* three committed rows under a difficulty that is not the bootstrap's
C13_Witness ==
    /\ pc = "loop"
    /\ ShownAfter(3)
    /\ live.caption # 1

\* the chain has just been constructed: mine() has not been called
FreshlyConstructed == pc = "main" /\ proposed_block = <<>>

\* C14: genesis invariant.  A freshly constructed chain has exactly one
\* block, with index 0 and nonce 0; in every reachable state the chain is
\* not empty, its first block is that block, and last_block is a block of
\* the chain.
C14_Genesis ==
    /\ FreshlyConstructed => Len(chain) = 1
    /\ Len(chain) >= 1
    /\ chain[1].index = 0
    /\ chain[1].nonce = 0
    /\ chain[1].previous_hash = PyInt(0)
    /\ Message(last_block) \in DOMAIN sha

\* rounds have committed and the genesis block is still the first block
C14_Witness ==
    /\ Len(chain) = 4
    /\ last_block.nonce = 1
    /\ chain[1].timestamp = 0

\* the chain holds three blocks of timestamps 0, 1, 20 under the target 10
Scenario_0_1_20 ==
    /\ Len(chain) = 3
    /\ chain[1].timestamp = 0
    /\ chain[2].timestamp = 1
    /\ chain[3].timestamp = 20
    /\ target_seconds_per_block = 10

\* C15 as stated: for timestamps 0, 1, 20 and the target 10 the average
\* gap is 10.5 s (its double 21) and the difficulty holds.
C15_AverageTenAndAHalf ==
    Scenario_0_1_20 =>
        /\ avg_time_to_mine_x2(chain) = 21
        /\ required_difficulty = leading_zero_count(last_block)

\* C15 as amended: for timestamps 0, 1, 20 and the target 10 the average
\* gap is 10 s (its double 20: the gaps are 1 s and 19 s), and the
\* required difficulty is the last block's leading-zero count, also as
\* the next round reads it.
C15_AverageTenHolds ==
    Scenario_0_1_20 =>
        /\ avg_time_to_mine_x2(chain) = 20
        /\ required_difficulty = leading_zero_count(last_block)
        /\ pc = "loop" =>
               (difficulty0 = leading_zero_count(last_block)
                /\ Len(prefix_str) = leading_zero_count(last_block))

\* the round after the three blocks has read the difficulty
C15_Witness == Scenario_0_1_20 /\ pc = "loop" /\ difficulty0 = 1

\* some hash starts with the prefix of the round
PrefixMatchable == \E d \in Digests : startswith(d, prefix_str)

\* C16: a round is searching (pc = "loop") until it has committed
\* (pc = "main").  mine() returns only in a pass that appends the candidate
\* that passed the prefix test; and as long as the round searches and some
\* hash starts with the prefix, the committing pass is possible, whatever
\* the nonce reached: so a round in which such a candidate is eventually
\* produced reaches the commit.
C16_RoundCommits ==
    /\ [](pc \in {"main", "loop"})
    /\ [][(pc = "loop" /\ pc' = "main") =>
            /\ chain' = Append(chain, proposed_block'[1])
            /\ startswith(sha'[Message(proposed_block'[1])], prefix_str)
            /\ proposed_block'[1].nonce = nonce]_vars
    /\ [][(pc = "loop" /\ chain' = chain) => pc' = "loop"]_vars
    /\ []((pc = "loop" /\ PrefixMatchable) => ENABLED mine_commit)

\* the fourth round committed after a rejected candidate
C16_Witness ==
    /\ Returned
    /\ Len(chain) = 5
    /\ last_block.nonce = 1
    /\ difficulty0 = 1

\* C17: nonce search order.  A round starts at nonce 0; a pass that stays
\* in the round has built the candidate of the current nonce, whose hash
\* does not start with the prefix, and raises the nonce by 1; the pass
\* that commits appends the candidate of the current nonce, whose hash
\* starts with the prefix.  So the nonce counts the candidates rejected,
\* and the committed block is the first candidate that passed.
C17_NonceOrder ==
    /\ [][(pc = "main" /\ pc' = "loop") => nonce' = 0]_vars
    /\ [][(pc = "loop" /\ pc' = "loop") =>
            /\ proposed_block'[1].nonce = nonce
            /\ ~startswith(sha'[Message(proposed_block'[1])], prefix_str)
            /\ nonce' = nonce + 1]_vars
    /\ [][(pc = "loop" /\ pc' = "main") =>
            /\ chain'[Len(chain')].nonce = nonce
            /\ startswith(sha'[Message(chain'[Len(chain')])], prefix_str)
            /\ nonce' = nonce
            /\ updates = nonce]_vars

\* a round of the retargeted difficulty 1 is at nonce 1 after a rejection
C17_Witness ==
    /\ pc = "loop"
    /\ nonce = 1
    /\ Len(chain) = 4
    /\ difficulty0 = 1
    /\ proposed_block # <<>>

\* the number of blocks committed when the latest round started
blocks_at_round_start == IF pc = "loop" THEN Len(chain) ELSE Len(chain) - 1

\* C18: the required difficulty is constant during a round.  While the
\* round searches, self.difficulty is the value read at its start, from
\* which the prefix was made; every table the round has shown lists the
\* blocks committed at its start, one candidate behind them, and carries
\* that value as caption; the required difficulty changes only in a step
\* that commits.
C18_DifficultyConstantInRound ==
    /\ [](pc = "loop" =>
            /\ required_difficulty = difficulty0
            /\ Len(prefix_str) = (IF difficulty0 > 0 THEN difficulty0 ELSE 0))
    /\ [](updates > 0 =>
            /\ live.caption = difficulty0
            /\ Len(live.rows) = blocks_at_round_start + 1
            /\ \A i \in 1..blocks_at_round_start :
                   live.rows[i] = committed_rows[i])
    /\ [][required_difficulty' # required_difficulty => chain' # chain]_vars

\* a round of a retargeted difficulty has shown a table and searches on
C18_Witness ==
    /\ pc = "loop"
    /\ updates = 1
    /\ Len(chain) >= 3
    /\ difficulty0 = 2
    /\ live.caption = 2

\* C19: the required difficulty is at least -1 in every reachable state.
\* No committed block has a negative count of leading zeros, so the value
\* read at the start of a round is -1 or more; a round that read a negative
\* value has the empty prefix, and its first candidate, the one of nonce 0,
\* is the block it commits.
C19_DifficultyAtLeastMinusOne ==
    /\ \A i \in 1..Len(chain) : leading_zero_count(chain[i]) >= 0
    /\ required_difficulty >= -1
    /\ difficulty0 >= -1
    /\ difficulty0 < 0 =>
           /\ prefix_str = <<>>
           /\ pc = "loop" => nonce = 0 /\ updates = 0
           /\ pc = "main" => /\ last_block.nonce = 0
                             /\ updates = 1
                             /\ proposed_block = <<last_block>>

\* a round that required -1 has committed its first candidate
C19_Witness ==
    /\ Returned
    /\ difficulty0 = -1
    /\ prefix_str = <<>>
    /\ last_block.nonce = 0
    /\ updates = 1

\* self.difficulty as the round that mined the block at position i read it:
\* the required difficulty of the chain's first i blocks
RoundDifficulty(i) ==
    Blockchain_difficulty(SubSeq(chain, 1, i), sha, target_seconds_per_block)

\* C20: between two consecutive mining rounds the required difficulty never
\* falls by more than 1.  The value a round reads at its start is at least
\* the value the round before it read, minus 1; the same holds of every two
\* consecutive rounds in the history of the chain, and of the value the
\* next round will read once a round has returned.
C20_DifficultyFallsByOneAtMost ==
    /\ [][(pc = "main" /\ pc' = "loop") => difficulty0' >= difficulty0 - 1]_vars
    /\ [](\A k \in 1..(Len(chain) - 1) :
              RoundDifficulty(k + 1) >= RoundDifficulty(k) - 1)
    /\ [](Returned => required_difficulty >= difficulty0 - 1)

\* a chain whose rounds read 1, 1, 0 and then 2: a fall of 1 and, right
\* after it, a rise of 2
C20_Witness ==
    /\ pc = "loop"
    /\ Len(chain) = 4
    /\ RoundDifficulty(2) = 1
    /\ RoundDifficulty(3) = 0
    /\ RoundDifficulty(4) = 2
    /\ difficulty0 = 2

====
